---- MODULE Spec2Model ----
(***************************************************************************)
(* A model of pepnet's declarative building blocks:                        *)
(*   - pepnet/losses.py          the masked / guarded loss functions       *)
(*   - pepnet/output.py          the Output descriptor and its loss_fn     *)
(*   - pepnet/sequence_input.py  the SequenceInput descriptor              *)
(* Tensors are modelled as arrays of floats, a float being either NaN or a *)
(* small integer; per-sample results are exact rationals.                  *)
(***************************************************************************)
EXTENDS Integers, Sequences, FiniteSets, TLC

VARIABLES
    y_true,      \* losses: the ground-truth array, samples x features
    y_pred,      \* losses: the prediction array, same shape
    loss_out,    \* losses: per loss function, its result on the arrays
                 \* (one value per sample; <<>> while not applied)
    replaced,    \* losses: positions of y_true overwritten by the sentinel
    output,      \* Output: <<>> before construction, then <<the object's fields>>
    output_new,  \* Output: the fields as __init__ left them
    loss_fn_log, \* Output: the outcome of every read of loss_fn, in order
    py_optimize, \* SequenceInput: the interpreter runs with -O (asserts stripped)
    objs,        \* SequenceInput: the constructed descriptors, by identity 1, 2, ..
    objs_new,    \* SequenceInput: each descriptor as __init__ left it
    last_init,   \* SequenceInput: <<>> or <<arguments and outcome of the last __init__>>
    round_trip,  \* SequenceInput: <<>> or <<outcome of the last to_dict/from_dict>>
    build_log    \* SequenceInput: every execution of build(), in order of start

lossVars == <<y_true, y_pred, loss_out, replaced>>

outputVars == <<output, output_new, loss_fn_log>>

seqVars == <<py_optimize, objs, objs_new, last_init, round_trip, build_log>>

vars == <<lossVars, outputVars, seqVars>>

(***************************************************************************)
(* Bounds of the model.                                                    *)
(***************************************************************************)
MaxElems == 3   \* arrays hold at most this many elements (samples * features)

MaxDim == 2     \* an Output has at most this many dimensions

MaxReads == 2   \* loss_fn is read at most this many times

MaxLayers == 2  \* conv_filter_sizes lists at most this many layer records

MaxRepeat == 2  \* repeat_conv_layers is at most this

MaxObjs == 2    \* at most this many SequenceInput descriptors are constructed

MaxBuilds == 3  \* build() is called at most this many times by the caller

(***************************************************************************)
(* Floats.  NaN propagates through arithmetic and compares false.          *)
(***************************************************************************)
NaN == [nan |-> TRUE, v |-> 0]

Flt(x) == [nan |-> FALSE, v |-> x]

\* the values a prediction is drawn from: negative, zero and positive
PredVals == {Flt(x) : x \in -1..1}

\* the values a ground-truth entry is drawn from: a label, or the sentinel
TrueVals == {Flt(x) : x \in 0..1} \cup {NaN}

FSub(a, b) == IF a.nan \/ b.nan THEN NaN ELSE Flt(a.v - b.v)

FAdd(a, b) == IF a.nan \/ b.nan THEN NaN ELSE Flt(a.v + b.v)

FMul(a, b) == IF a.nan \/ b.nan THEN NaN ELSE Flt(a.v * b.v)

\* a / b; the quotient stays an exact fraction, 0/0 is NaN
FDiv(a, b) ==
    IF a.nan \/ b.nan \/ b.v = 0
    THEN [nan |-> TRUE, num |-> 0, den |-> 1]
    ELSE [nan |-> FALSE, num |-> a.v, den |-> b.v]

\* equality of two quotients as numbers (NaN equals nothing, as in IEEE)
RatEq(p, q) == ~p.nan /\ ~q.nan /\ p.num * q.den = q.num * p.den

(***************************************************************************)
(* Element-wise and reducing tensor operations (keras.backend).            *)
(***************************************************************************)
Map2(f(_, _), a, b) ==
    [i \in DOMAIN a |-> [j \in DOMAIN a[i] |-> f(a[i][j], b[i][j])]]

Map1(f(_), a) == [i \in DOMAIN a |-> [j \in DOMAIN a[i] |-> f(a[i][j])]]

RECURSIVE SumSeq(_)
SumSeq(s) == IF s = <<>> THEN Flt(0) ELSE FAdd(s[1], SumSeq(Tail(s)))

\* K.sum(x, axis=-1)
K_sum(x) == [i \in DOMAIN x |-> SumSeq(x[i])]

\* K.mean(x, axis=-1): the sum over the feature axis by the feature count
K_mean(x) == [i \in DOMAIN x |-> FDiv(SumSeq(x[i]), Flt(Len(x[i])))]

K_square(x) == Map1(LAMBDA e : FMul(e, e), x)

\* debugging.is_nan
is_nan(x) == Map1(LAMBDA e : e.nan, x)

\* K.cast(mask, "float32")
K_cast(m) == Map1(LAMBDA b : IF b THEN Flt(1) ELSE Flt(0), m)

\* K.zeros(K.shape(x))
K_zeros(x) == Map1(LAMBDA e : Flt(0), x)

\* K.switch(mask, a, b): selects, so a NaN of the branch not taken is dropped
K_switch(m, a, b) ==
    [i \in DOMAIN m |-> [j \in DOMAIN m[i] |-> IF m[i][j] THEN a[i][j] ELSE b[i][j]]]

\* -log(p) of a prediction clipped to [eps, 1 - eps], in units of one nat:
\* -log(eps) is about 16 and -log(1 - eps) about 0 for eps = 1e-7
NegLogClipped(p, complement) ==
    LET high == IF complement THEN p.v < 1 ELSE p.v >= 1
    IN  IF high THEN 0 ELSE 16

\* K.binary_crossentropy(output, target), element-wise:
\* -(t * log(p) + (1 - t) * log(1 - p))
K_binary_crossentropy(pred, target) ==
    Map2(LAMBDA p, t :
            IF p.nan \/ t.nan THEN NaN
            ELSE Flt(t.v * NegLogClipped(p, FALSE)
                     + (1 - t.v) * NegLogClipped(p, TRUE)),
         pred, target)

(***************************************************************************)
(* pepnet/losses.py                                                        *)
(***************************************************************************)
\* positive_only_mse averaging over the unmasked entries only
positive_only_mse_valid_count(yt, yp) ==
    LET diff    == Map2(FSub, yp, yt)
        squared == K_square(diff)
        mask    == Map1(LAMBDA e : ~e.nan /\ e.v >= 0, yp)
        masked  == Map2(FMul, squared, K_cast(mask))
        n_valid == K_sum(K_cast(mask))
    IN  [i \in DOMAIN yt |-> FDiv(SumSeq(masked[i]), n_valid[i])]

positive_only_mse(yt, yp) ==
    LET diff    == Map2(FSub, yp, yt)
        squared == K_square(diff)
        mask    == Map1(LAMBDA e : ~e.nan /\ e.v >= 0, yp)
        masked  == Map2(FMul, squared, K_cast(mask))
    IN  K_mean(masked)

\* masked_mse dividing by the feature count less one (a sample variance)
masked_mse_off_by_one(yt, yp) ==
    LET mask    == is_nan(yt)
        diff    == Map2(FSub, yp, yt)
        squared == K_square(diff)
        sum_squared_error  == K_sum(K_switch(mask, K_zeros(squared), squared))
        n_valid_per_sample == K_sum(K_cast(Map1(LAMBDA b : ~b, mask)))
    IN  [i \in DOMAIN yt |->
            FDiv(sum_squared_error[i], FSub(n_valid_per_sample[i], Flt(1)))]

masked_mse(yt, yp) ==
    LET mask    == is_nan(yt)
        diff    == Map2(FSub, yp, yt)
        squared == K_square(diff)
        sum_squared_error  == K_sum(K_switch(mask, K_zeros(squared), squared))
        n_valid_per_sample == K_sum(K_cast(Map1(LAMBDA b : ~b, mask)))
    IN  [i \in DOMAIN yt |-> FDiv(sum_squared_error[i], n_valid_per_sample[i])]

\* masked_binary_crossentropy masking by multiplication instead of selection
masked_binary_crossentropy_by_product(yt, yp) ==
    LET mask == is_nan(yt)
        cross_entropy_values == K_binary_crossentropy(yp, yt)
        sum_cross_entropy_values ==
            K_sum(Map2(FMul, cross_entropy_values,
                       K_cast(Map1(LAMBDA b : ~b, mask))))
        n_valid_per_sample == K_sum(K_cast(Map1(LAMBDA b : ~b, mask)))
    IN  [i \in DOMAIN yt |->
            FDiv(sum_cross_entropy_values[i], n_valid_per_sample[i])]

masked_binary_crossentropy(yt, yp) ==
    LET mask == is_nan(yt)
        cross_entropy_values == K_binary_crossentropy(yp, yt)
        sum_cross_entropy_values ==
            K_sum(K_switch(mask, K_zeros(cross_entropy_values), cross_entropy_values))
        n_valid_per_sample == K_sum(K_cast(Map1(LAMBDA b : ~b, mask)))
    IN  [i \in DOMAIN yt |->
            FDiv(sum_cross_entropy_values[i], n_valid_per_sample[i])]

(***************************************************************************)
(* The loss functions applied to arrays: inputs are drawn by InitLoss.     *)
(***************************************************************************)
\* the shapes (samples, features) an array may have
Shapes == {sh \in (1..MaxElems) \X (1..MaxElems) : sh[1] * sh[2] <= MaxElems}

Arrays(sh, vals) == [1..sh[1] -> [1..sh[2] -> vals]]

LossNames == {"positive_only_mse", "masked_mse", "masked_binary_crossentropy"}

LossIdle ==
    /\ y_true = <<>>
    /\ y_pred = <<>>
    /\ loss_out = [n \in LossNames |-> <<>>]
    /\ replaced = {}

LossInputs ==
    /\ \E sh \in Shapes :
        /\ y_true \in Arrays(sh, TrueVals)
        /\ y_pred \in Arrays(sh, PredVals)
    /\ loss_out = [n \in LossNames |-> <<>>]
    /\ replaced = {}

Call_positive_only_mse ==
    /\ loss_out' = [loss_out EXCEPT
                        !["positive_only_mse"] = positive_only_mse(y_true, y_pred)]
    /\ UNCHANGED <<y_true, y_pred, replaced>>

Call_masked_mse ==
    /\ loss_out' = [loss_out EXCEPT !["masked_mse"] = masked_mse(y_true, y_pred)]
    /\ UNCHANGED <<y_true, y_pred, replaced>>

Call_masked_binary_crossentropy ==
    /\ loss_out' = [loss_out EXCEPT
                        !["masked_binary_crossentropy"] =
                            masked_binary_crossentropy(y_true, y_pred)]
    /\ UNCHANGED <<y_true, y_pred, replaced>>

\* the caller marks an observed ground-truth feature as unobserved; results
\* computed on the old array are dropped
ReplaceBySentinel ==
    \E i \in DOMAIN y_true : \E j \in DOMAIN y_true[i] :
        /\ ~y_true[i][j].nan
        /\ y_true' = [y_true EXCEPT ![i][j] = NaN]
        /\ replaced' = replaced \cup {<<i, j>>}
        /\ loss_out' = [n \in LossNames |-> <<>>]
        /\ UNCHANGED y_pred

(***************************************************************************)
(* pepnet/output.py                                                        *)
(***************************************************************************)
\* the loss names keras.losses knows, among those the model draws from
KerasLosses == {"mse", "binary_crossentropy", "mean_absolute_error"}

Returned(fn) == [kind |-> "return", fn |-> fn, exc |-> "", msg |-> "", arg |-> ""]

Raised(exc, msg, arg) ==
    [kind |-> "raise", fn |-> "", exc |-> exc, msg |-> msg, arg |-> arg]

\* keras.losses.deserialize(name): the registered function, or an error
keras_losses_deserialize(name) ==
    IF name \in KerasLosses THEN Returned(name)
    ELSE Raised("ValueError", "Unknown loss function", name)

\* Output.loss_fn without the check of the loss name under mask_negative
loss_fn_any_masked(self) ==
    IF self.mask_negative THEN Returned("positive_only_mse")
    ELSE keras_losses_deserialize(self.loss)

\* the property Output.loss_fn
loss_fn(self) ==
    IF self.mask_negative
    THEN IF self.loss = "mse"
         THEN Returned("positive_only_mse")
         ELSE Raised("ValueError", "No masked loss available for", self.loss)
    ELSE keras_losses_deserialize(self.loss)

\* the arguments Output.__init__ is called with
OutputConfigs ==
    [dim : 1..MaxDim,
     activation : {"linear", "sigmoid"},
     loss : KerasLosses \cup {"no_such_loss"},
     dense_layer_sizes : {<<>>, <<32>>},
     mask_negative : BOOLEAN]

OutputIdle ==
    /\ output = <<>>
    /\ output_new = <<>>
    /\ loss_fn_log = <<>>

\* Output.__init__: stores its arguments, validates nothing
Output_init(cfg) ==
    /\ output = <<>>
    /\ output' = <<[dim |-> cfg.dim,
                    dense_layer_sizes |-> cfg.dense_layer_sizes,
                    activation |-> cfg.activation,
                    loss |-> cfg.loss,
                    mask_negative |-> cfg.mask_negative]>>
    /\ output_new' = output'
    /\ UNCHANGED loss_fn_log

\* a read of output.loss_fn
Read_loss_fn ==
    /\ output # <<>>
    /\ Len(loss_fn_log) < MaxReads
    /\ loss_fn_log' = Append(loss_fn_log, loss_fn(output[1]))
    /\ UNCHANGED <<output, output_new>>

(***************************************************************************)
(* Python values: None, bool, int, float (in hundredths) and str.          *)
(***************************************************************************)
PyNone == [ty |-> "none", i |-> 0, s |-> ""]

PyInt(n) == [ty |-> "int", i |-> n, s |-> ""]

PyBool(b) == [ty |-> "bool", i |-> IF b THEN 1 ELSE 0, s |-> ""]

PyFloat(hundredths) == [ty |-> "float", i |-> hundredths, s |-> ""]

PyStr(x) == [ty |-> "str", i |-> 0, s |-> x]

\* a dict is a set of items, one per key
Item(k, v) == [k |-> k, v |-> v]

Keys(d) == {it.k : it \in d}

\* dict.pop(key, default): <<the value, the dict without the key>>
Pop(d, key, default) ==
    IF key \in Keys(d)
    THEN LET it == CHOOSE x \in d : x.k = key IN <<it.v, d \ {it}>>
    ELSE <<default, d>>

\* an element of a list: a dict, or something else (here an int)
DictObj(d) == [isdict |-> TRUE, d |-> d, other |-> PyNone]

OtherObj(v) == [isdict |-> FALSE, d |-> {}, other |-> v]

\* conv_filter_sizes: a list of elements, or one dict standing for one layer
ListOf(items) == [kind |-> "list", items |-> items]

SingleDict(d) == [kind |-> "dict", items |-> <<DictObj(d)>>]

\* str(n) of the filter widths in use, as a JSON writer prints a key
IntToStr(n) ==
    CASE n = 3 -> "3"
      [] n = 5 -> "5"
      [] OTHER -> "?"

\* int(x) for a python value x: <<ok, the integer>>
PyIntOf(x) ==
    CASE x.ty = "int" -> <<TRUE, x.i>>
      [] x.ty = "bool" -> <<TRUE, x.i>>
      [] x.ty = "float" -> <<TRUE, x.i \div 100>>
      [] x.ty = "str" ->
            IF x.s = "3" THEN <<TRUE, 3>>
            ELSE IF x.s = "5" THEN <<TRUE, 5>>
            ELSE IF x.s = "16" THEN <<TRUE, 16>>
            ELSE IF x.s = "8" THEN <<TRUE, 8>>
            ELSE <<FALSE, 0>>
      [] OTHER -> <<FALSE, 0>>

(***************************************************************************)
(* pepnet/sequence_input.py: construction and (de)serialization            *)
(***************************************************************************)
Encodings == {"embedding", "onehot", "blosum", "pmbec"}

New(obj) == [kind |-> "return", exc |-> "", obj |-> <<obj>>]

Fail(exc) == [kind |-> "raise", exc |-> exc, obj |-> <<>>]

\* the fields __init__ assigns, among those the modelled methods read
Fields(cfg) ==
    [encoding |-> cfg.encoding,
     add_normalized_position |-> cfg.add_normalized_position,
     add_normalized_centrality |-> cfg.add_normalized_centrality,
     extra_input_dims |->
        PyInt((IF cfg.add_normalized_position THEN 1 ELSE 0)
              + (IF cfg.add_normalized_centrality THEN 1 ELSE 0)),
     embedding_dim |-> cfg.embedding_dim,
     conv_filter_sizes |-> cfg.conv_filter_sizes,
     repeat_conv_layers |-> cfg.repeat_conv_layers,
     conv_dropout |-> cfg.conv_dropout,
     conv_batch_normalization |-> cfg.conv_batch_normalization,
     conv_activation |-> cfg.conv_activation,
     conv_weight_source |-> cfg.conv_weight_source,
     pool_size |-> cfg.pool_size,
     pool_stride |-> cfg.pool_stride,
     rnn_layer_sizes |-> cfg.rnn_layer_sizes,
     return_sequences |-> cfg.return_sequences,
     global_pooling |-> cfg.global_pooling,
     dense_layer_sizes |-> cfg.dense_layer_sizes,
     n_highway_layers |-> cfg.n_highway_layers]

\* SequenceInput.__init__(**cfg)
SequenceInput_init(cfg, optimize) ==
    LET self == Fields(cfg)
    IN  IF cfg.encoding \notin Encodings
        THEN Fail("ValueError")
        ELSE IF self.encoding = "embedding" /\ ~optimize
                 /\ self.extra_input_dims.ty # "none"
        THEN \* assert self.extra_input_dims is None
             Fail("AssertionError")
        ELSE New(self)

\* Serializable.to_dict: the constructor arguments, read back from the fields
to_dict(self) ==
    [encoding |-> self.encoding,
     add_normalized_position |-> self.add_normalized_position,
     add_normalized_centrality |-> self.add_normalized_centrality,
     embedding_dim |-> self.embedding_dim,
     conv_filter_sizes |-> self.conv_filter_sizes,
     repeat_conv_layers |-> self.repeat_conv_layers,
     conv_dropout |-> self.conv_dropout,
     conv_batch_normalization |-> self.conv_batch_normalization,
     conv_activation |-> self.conv_activation,
     conv_weight_source |-> self.conv_weight_source,
     pool_size |-> self.pool_size,
     pool_stride |-> self.pool_stride,
     rnn_layer_sizes |-> self.rnn_layer_sizes,
     return_sequences |-> self.return_sequences,
     global_pooling |-> self.global_pooling,
     dense_layer_sizes |-> self.dense_layer_sizes,
     n_highway_layers |-> self.n_highway_layers]

\* a key as a JSON text carries it: always a string
JsonKey(k) == IF k.ty = "int" THEN PyStr(IntToStr(k.i)) ELSE k

JsonElement(e) ==
    IF e.isdict THEN DictObj({Item(JsonKey(it.k), it.v) : it \in e.d}) ELSE e

\* the configuration mapping after json.dumps / json.loads
JsonRoundTrip(config_dict) ==
    [config_dict EXCEPT
        !.conv_filter_sizes =
            [kind |-> @.kind,
             items |-> [n \in DOMAIN @.items |-> JsonElement(@.items[n])]]]

\* {int(k): int(v) for (k, v) in layer_dictionary.items()}: <<ok, the dict>>
IntKeyed(layer_dictionary) ==
    IF \A it \in layer_dictionary : PyIntOf(it.k)[1] /\ PyIntOf(it.v)[1]
    THEN <<TRUE, {Item(PyInt(PyIntOf(it.k)[2]), PyInt(PyIntOf(it.v)[2])) :
                    it \in layer_dictionary}>>
    ELSE <<FALSE, {}>>

\* SequenceInput.from_dict(config_dict)
from_dict(config_dict, optimize) ==
    LET cfs == config_dict.conv_filter_sizes
    IN  IF cfs.kind = "dict"
        THEN \* iterating a dict yields its keys, which have no items()
             IF cfs.items[1].d = {}
             THEN SequenceInput_init(
                    [config_dict EXCEPT !.conv_filter_sizes = ListOf(<<>>)],
                    optimize)
             ELSE Fail("AttributeError")
        ELSE IF \E n \in DOMAIN cfs.items :
                    /\ ~cfs.items[n].isdict
                    /\ \A m \in 1..(n - 1) : IntKeyed(cfs.items[m].d)[1]
        THEN Fail("AttributeError")
        ELSE IF \E n \in DOMAIN cfs.items : ~IntKeyed(cfs.items[n].d)[1]
        THEN Fail("ValueError")
        ELSE SequenceInput_init(
                [config_dict EXCEPT
                    !.conv_filter_sizes =
                        ListOf([n \in DOMAIN cfs.items |->
                                    DictObj(IntKeyed(cfs.items[n].d)[2])])],
                optimize)

(***************************************************************************)
(* Graph fragments (pepnet/nn_helpers.py, keras).  A tensor is the         *)
(* placeholder it derives from, its rank, and the layers applied so far.   *)
(***************************************************************************)
Layer(op) ==
    [op |-> op, output_dim |-> {}, dropout |-> PyNone,
     batch_normalization |-> PyNone, activation |-> PyNone,
     size |-> PyNone, stride |-> PyNone, layer_sizes |-> <<>>,
     n_layers |-> 0, weight_source |-> 0]

Apply(value, layer, ndim) ==
    [input |-> value.input, ndim |-> ndim, ops |-> Append(value.ops, layer)]

\* integer indices: (batch, length)
make_index_sequence_input(build_id) == [input |-> build_id, ndim |-> 2, ops |-> <<>>]

\* vectors: (batch, length, n_dims)
make_vector_sequence_input(build_id) == [input |-> build_id, ndim |-> 3, ops |-> <<>>]

embedding(value, output_dim) ==
    Apply(value, [Layer("embedding") EXCEPT !.layer_sizes = <<output_dim>>],
          value.ndim + 1)

aligned_convolutions(value, output_dim, dropout, batch_normalization, activation, weight_source) ==
    Apply(value,
          [Layer("aligned_convolutions") EXCEPT
                !.output_dim = output_dim,
                !.dropout = dropout,
                !.batch_normalization = batch_normalization,
                !.activation = activation,
                !.weight_source = weight_source],
          value.ndim)

local_max_pooling(value, size, stride) ==
    Apply(value,
          [Layer("local_max_pooling") EXCEPT !.size = size, !.stride = stride],
          value.ndim)

\* the last recurrent layer keeps the time axis only with return_sequences
recurrent_layers(value, layer_sizes, return_sequences) ==
    Apply(value, [Layer("recurrent_layers") EXCEPT !.layer_sizes = layer_sizes],
          IF return_sequences THEN 3 ELSE 2)

global_max_and_mean_pooling(value) ==
    Apply(value, Layer("global_max_and_mean_pooling"), 2)

flatten(value) == Apply(value, Layer("flatten"), 2)

\* one dense layer per size: none for an empty list
dense_layers(value, layer_sizes) ==
    IF layer_sizes = <<>> THEN value
    ELSE Apply(value, [Layer("dense_layers") EXCEPT !.layer_sizes = layer_sizes],
               value.ndim)

highway_layers(value, n_layers) ==
    Apply(value, [Layer("highway_layers") EXCEPT !.n_layers = n_layers],
          value.ndim)

K_ndim(value) == value.ndim

(***************************************************************************)
(* pepnet/sequence_input.py: build()                                       *)
(***************************************************************************)
Done(value) == [kind |-> "return", exc |-> "", value |-> <<value>>]

Throw(exc) == [kind |-> "raise", exc |-> exc, value |-> <<>>]

_build_input(self, build_id) ==
    IF self.encoding = "embedding"
    THEN make_index_sequence_input(build_id)
    ELSE make_vector_sequence_input(build_id)

_build_embedding(self, input_object) ==
    IF self.encoding = "embedding"
    THEN IF self.embedding_dim <= 0
         THEN Throw("ValueError")
         ELSE Done(embedding(input_object, self.embedding_dim))
    ELSE Done(input_object)

\* the loop of _build_conv from its k-th iteration on (k counts the layer
\* records visited over all repetitions); items is the list as the earlier
\* iterations left it
RECURSIVE ConvLoop(_, _, _, _, _, _)
ConvLoop(self, items, k, value, conv_layer_index, conv_weight_source) ==
    LET n_conv_layers == self.repeat_conv_layers * Len(items)
        at == ((k - 1) % Len(items)) + 1
        conv_layer_dict == items[at]
    IN  IF k > n_conv_layers
        THEN [items |-> items, out |-> Done(value)]
        ELSE IF ~conv_layer_dict.isdict
        THEN [items |-> items, out |-> Throw("ValueError")]
        ELSE
        LET p1 == Pop(conv_layer_dict.d, PyStr("pool_size"), self.pool_size)
            p2 == Pop(p1[2], PyStr("pool_stride"), self.pool_stride)
            p3 == Pop(p2[2], PyStr("batch_normalization"),
                      self.conv_batch_normalization)
            p4 == Pop(p3[2], PyStr("activation"), self.conv_activation)
            p5 == Pop(p4[2], PyStr("dropout"), self.conv_dropout)
            pool_size == p1[1]
            pool_stride == p2[1]
            maxpooling == (pool_size.i > 1) \/ (pool_stride.i > 1)
            popped == [items EXCEPT ![at] = DictObj(p5[2])]
            conv == aligned_convolutions(value, p5[2], p5[1], p3[1], p4[1],
                                         conv_weight_source)
        IN  IF p5[2] = {}
            THEN ConvLoop(self, popped, k + 1, value, conv_layer_index,
                          conv_weight_source)
            ELSE ConvLoop(self, popped, k + 1,
                          IF maxpooling /\ (conv_layer_index + 1 < n_conv_layers)
                          THEN local_max_pooling(conv, pool_size, pool_stride)
                          ELSE conv,
                          conv_layer_index + 1, conv_weight_source)

_build_rnn(self, value) ==
    LET rnn_layer_sizes == IF self.rnn_layer_sizes.kind = "int"
                           THEN <<self.rnn_layer_sizes.n>>
                           ELSE self.rnn_layer_sizes.items
    IN  IF Len(rnn_layer_sizes) > 0
        THEN recurrent_layers(value, rnn_layer_sizes, self.return_sequences)
        ELSE value

_build_global_pooling(self, value) ==
    IF self.global_pooling THEN global_max_and_mean_pooling(value) ELSE value

\* _build_dense flattening whatever return_sequences says
_build_dense_always_flatten(self, value) ==
    dense_layers(IF K_ndim(value) > 2 THEN flatten(value) ELSE value,
                 self.dense_layer_sizes)

_build_dense(self, value) ==
    dense_layers(IF K_ndim(value) > 2 /\ ~self.return_sequences
                 THEN flatten(value) ELSE value,
                 self.dense_layer_sizes)

_build_highway(self, value) ==
    LET flat == IF K_ndim(value) > 2 /\ ~self.return_sequences
                THEN flatten(value) ELSE value
    IN  IF self.n_highway_layers # 0
        THEN highway_layers(flat, self.n_highway_layers)
        ELSE flat

\* build() of the descriptor id, called by the build caller (0: the user);
\* heap holds the descriptors and log the builds started so far.  Yields the
\* heap and the log as the call leaves them; the call's own entry is log[build_id].
RECURSIVE build(_, _, _, _)
\* _build_conv(value) of the descriptor id during its build build_id
_build_conv(heap, log, id, build_id, value) ==
    LET self == heap[id]
        cfs == self.conv_filter_sizes
    IN  IF cfs.items = <<>> \/ (cfs.kind = "dict" /\ cfs.items[1].d = {})
        THEN [heap |-> heap, log |-> log, out |-> Done(value)]
        ELSE
        LET nested == self.conv_weight_source # 0
            src == IF nested
                   THEN build(heap, log, self.conv_weight_source, build_id)
                   ELSE [heap |-> heap, log |-> log]
            src_id == Len(log) + 1
        IN  IF nested /\ src.log[src_id].kind = "raise"
            THEN [heap |-> src.heap, log |-> src.log,
                  out |-> Throw(src.log[src_id].exc)]
            ELSE
            LET loop == ConvLoop(src.heap[id], cfs.items, 1, value, 0,
                                 IF nested THEN src.log[src_id].value[1].input
                                 ELSE 0)
            IN  [heap |-> [src.heap EXCEPT ![id].conv_filter_sizes.items = loop.items],
                 log |-> src.log,
                 out |-> loop.out]

Entry(id, by, out) == [obj |-> id, by |-> by, kind |-> out.kind, exc |-> out.exc,
                       value |-> out.value]

build(heap, log, id, by) ==
    LET build_id == Len(log) + 1
        self == heap[id]
        started == Append(log, Entry(id, by, [kind |-> "running", exc |-> "",
                                              value |-> <<>>]))
        input_object == _build_input(self, build_id)
        emb == _build_embedding(self, input_object)
    IN  IF emb.kind = "raise"
        THEN [heap |-> heap, log |-> [started EXCEPT ![build_id] = Entry(id, by, emb)]]
        ELSE
        LET conv == _build_conv(heap, started, id, build_id, emb.value[1])
        IN  IF conv.out.kind = "raise"
            THEN [heap |-> conv.heap,
                  log |-> [conv.log EXCEPT ![build_id] = Entry(id, by, conv.out)]]
            ELSE
            LET me == conv.heap[id]
                v4 == _build_rnn(me, conv.out.value[1])
                v5 == _build_global_pooling(me, v4)
                v6 == _build_dense(me, v5)
                v7 == _build_highway(me, v6)
            IN  [heap |-> conv.heap,
                 log |-> [conv.log EXCEPT ![build_id] = Entry(id, by, Done(v7))]]

(***************************************************************************)
(* Operations on SequenceInput descriptors.                                *)
(***************************************************************************)
SeqIdle ==
    /\ py_optimize = FALSE
    /\ objs = <<>>
    /\ objs_new = <<>>
    /\ last_init = <<>>
    /\ round_trip = <<>>
    /\ build_log = <<>>

SeqStart ==
    /\ py_optimize \in BOOLEAN
    /\ objs = <<>>
    /\ objs_new = <<>>
    /\ last_init = <<>>
    /\ round_trip = <<>>
    /\ build_log = <<>>

\* SequenceInput(**cfg)
Construct(cfg) ==
    LET r == SequenceInput_init(cfg, py_optimize)
    IN  /\ Len(objs) < MaxObjs
        /\ cfg.conv_weight_source \in 0..Len(objs)
        /\ last_init' = <<[encoding |-> cfg.encoding,
                           add_normalized_position |-> cfg.add_normalized_position,
                           add_normalized_centrality |-> cfg.add_normalized_centrality,
                           kind |-> r.kind, exc |-> r.exc]>>
        /\ objs' = objs \o r.obj
        /\ objs_new' = objs_new \o r.obj
        /\ UNCHANGED <<py_optimize, round_trip, build_log>>

\* SequenceInput.from_dict(json.loads(json.dumps(objs[id].to_dict())))
RoundTrip(id) ==
    /\ id \in DOMAIN objs
    /\ round_trip' = <<[of |-> id,
                        back |-> from_dict(JsonRoundTrip(to_dict(objs[id])),
                                           py_optimize)]>>
    /\ UNCHANGED <<py_optimize, objs, objs_new, last_init, build_log>>

\* objs[id].build(), called by the user
Build(id) ==
    /\ id \in DOMAIN objs
    /\ Cardinality({n \in DOMAIN build_log : build_log[n].by = 0}) < MaxBuilds
    /\ LET r == build(objs, build_log, id, 0)
       IN  /\ objs' = r.heap
           /\ build_log' = r.log
    /\ UNCHANGED <<py_optimize, objs_new, last_init, round_trip>>

(***************************************************************************)
(* The arguments descriptors are constructed with.                         *)
(***************************************************************************)
IntList(items) == [kind |-> "list", n |-> 0, items |-> items]

JustInt(n) == [kind |-> "int", n |-> n, items |-> <<>>]

\* the defaults of SequenceInput.__init__
DefaultConfig ==
    [encoding |-> "onehot",
     add_normalized_position |-> FALSE,
     add_normalized_centrality |-> FALSE,
     embedding_dim |-> 32,
     conv_filter_sizes |-> ListOf(<<>>),
     repeat_conv_layers |-> 1,
     conv_dropout |-> PyInt(0),
     conv_batch_normalization |-> PyBool(FALSE),
     conv_activation |-> PyStr("linear"),
     conv_weight_source |-> 0,
     pool_size |-> PyInt(3),
     pool_stride |-> PyInt(2),
     rnn_layer_sizes |-> IntList(<<>>),
     return_sequences |-> FALSE,
     global_pooling |-> FALSE,
     dense_layer_sizes |-> <<>>,
     n_highway_layers |-> 0]

\* {3: 16}: sixteen filters of width 3
Width3 == Item(PyInt(3), PyInt(16))

\* layer records: plain, empty, with per-layer overrides, overrides only
LayerDicts ==
    {{Width3},
     {},
     {Width3, Item(PyStr("pool_size"), PyInt(1)), Item(PyStr("pool_stride"), PyInt(1))},
     {Width3, Item(PyStr("activation"), PyStr("relu"))},
     {Item(PyStr("dropout"), PyFloat(25))}}

\* list elements: the layer records, and an int where a record belongs
Elements == {DictObj(d) : d \in LayerDicts} \cup {OtherObj(PyInt(7))}

ConvFilterChoices ==
    {ListOf(l) : l \in UNION {[1..m -> Elements] : m \in 0..MaxLayers}}
        \cup {SingleDict(d) : d \in LayerDicts}

\* construction: every encoding name and augmentation flag
CtorConfigs ==
    {[DefaultConfig EXCEPT !.encoding = e,
                           !.add_normalized_position = p,
                           !.add_normalized_centrality = c,
                           !.conv_filter_sizes = f] :
        e \in Encodings \cup {"xyz"}, p \in BOOLEAN, c \in BOOLEAN,
        f \in ConvFilterChoices}

\* convolution stacks, possibly taking their weights from descriptor src
ConvConfigs(src) ==
    {[DefaultConfig EXCEPT !.conv_filter_sizes = f,
                           !.repeat_conv_layers = r,
                           !.conv_weight_source = src] :
        f \in ConvFilterChoices, r \in 1..MaxRepeat}

\* pipelines: every stage switched on or off
PipelineConfigs ==
    {[DefaultConfig EXCEPT !.encoding = e,
                           !.embedding_dim = IF e = "embedding" THEN d ELSE 32,
                           !.conv_filter_sizes = f,
                           !.rnn_layer_sizes = rnn,
                           !.return_sequences = seq,
                           !.global_pooling = g,
                           !.dense_layer_sizes = dl,
                           !.n_highway_layers = h] :
        e \in {"onehot", "embedding"},
        d \in {0, 32},
        f \in {ListOf(<<>>), ListOf(<<DictObj({Width3})>>)},
        rnn \in {IntList(<<>>), IntList(<<8>>), JustInt(8)},
        seq \in BOOLEAN, g \in BOOLEAN,
        dl \in {<<>>, <<32>>}, h \in 0..1}

(***************************************************************************)
(* Specifications.                                                         *)
(***************************************************************************)
\* the loss functions on drawn arrays
InitLoss == LossInputs /\ OutputIdle /\ SeqIdle

NextLoss ==
    \/ Call_positive_only_mse /\ UNCHANGED <<outputVars, seqVars>>
    \/ Call_masked_mse /\ UNCHANGED <<outputVars, seqVars>>
    \/ Call_masked_binary_crossentropy /\ UNCHANGED <<outputVars, seqVars>>
    \/ ReplaceBySentinel /\ UNCHANGED <<outputVars, seqVars>>

SpecLoss == InitLoss /\ [][NextLoss]_vars

\* one Output: constructed, then its loss_fn read
InitOutput == LossIdle /\ OutputIdle /\ SeqIdle

NextOutput ==
    \/ \E cfg \in OutputConfigs :
            Output_init(cfg) /\ UNCHANGED <<lossVars, seqVars>>
    \/ Read_loss_fn /\ UNCHANGED <<lossVars, seqVars>>

SpecOutput == InitOutput /\ [][NextOutput]_vars

\* one SequenceInput: constructed, then serialized and read back
InitCtor == LossIdle /\ OutputIdle /\ SeqStart

NextCtor ==
    \/ \E cfg \in CtorConfigs :
            objs = <<>> /\ Construct(cfg) /\ UNCHANGED <<lossVars, outputVars>>
    \/ \E id \in 1..MaxObjs :
            RoundTrip(id) /\ UNCHANGED <<lossVars, outputVars>>

SpecCtor == InitCtor /\ [][NextCtor]_vars

\* SequenceInputs with convolution stacks, a later one possibly taking its
\* weights from an earlier one, built repeatedly
InitConv == LossIdle /\ OutputIdle /\ SeqIdle

NextConv ==
    \/ \E src \in 0..MaxObjs : \E cfg \in ConvConfigs(src) :
            Construct(cfg) /\ UNCHANGED <<lossVars, outputVars>>
    \/ \E id \in 1..MaxObjs :
            Build(id) /\ UNCHANGED <<lossVars, outputVars>>

SpecConv == InitConv /\ [][NextConv]_vars

\* one SequenceInput with any choice of stages, built repeatedly
InitPipeline == LossIdle /\ OutputIdle /\ SeqStart

NextPipeline ==
    \/ \E cfg \in PipelineConfigs :
            objs = <<>> /\ Construct(cfg) /\ UNCHANGED <<lossVars, outputVars>>
    \/ \E id \in 1..MaxObjs :
            Build(id) /\ UNCHANGED <<lossVars, outputVars>>

SpecPipeline == InitPipeline /\ [][NextPipeline]_vars

(***************************************************************************)
(* Properties of the loss functions.                                       *)
(***************************************************************************)
Features(i) == DOMAIN y_true[i]

\* the positions of sample i whose ground truth is not the sentinel
Observed(i) == {j \in Features(i) : ~y_true[i][j].nan}

Finite(i) == Observed(i) = Features(i)

Applied(name) == loss_out[name] # <<>>

\* the sum over the positions S of sample i of (y_pred - y_true)^2
RECURSIVE SquaredErrorOver(_, _)
SquaredErrorOver(i, S) ==
    IF S = {} THEN 0
    ELSE LET j == CHOOSE k \in S : TRUE
             d == y_pred[i][j].v - y_true[i][j].v
         IN  d * d + SquaredErrorOver(i, S \ {j})

\* the sum over the positions S of sample i of the element's cross-entropy
RECURSIVE CrossEntropyOver(_, _)
CrossEntropyOver(i, S) ==
    IF S = {} THEN 0
    ELSE LET j == CHOOSE k \in S : TRUE
             t == y_true[i][j].v
             p == y_pred[i][j]
         IN  t * NegLogClipped(p, FALSE) + (1 - t) * NegLogClipped(p, TRUE)
             + CrossEntropyOver(i, S \ {j})

IsQuotient(r, num, den) == ~r.nan /\ r.num = num /\ r.den = den

\* C1: when no y_true entry is the NaN sentinel, masked_mse returns for each
\* sample the plain mean over the feature axis of (y_pred - y_true)^2: the sum
\* of the squared differences divided by the full feature count.
C1_MaskedMseIsPlainMse ==
    (Applied("masked_mse") /\ \A i \in DOMAIN y_true : Finite(i)) =>
        \A i \in DOMAIN y_true :
            IsQuotient(loss_out["masked_mse"][i],
                       SquaredErrorOver(i, Features(i)),
                       Cardinality(Features(i)))

C1_Witness ==
    /\ Applied("masked_mse")
    /\ \A i \in DOMAIN y_true : Finite(i)
    /\ \E i \in DOMAIN y_true :
        /\ Cardinality(Features(i)) >= 2
        /\ loss_out["masked_mse"][i].num > 0

C3_MaskedRecomputed ==
    /\ Applied("masked_mse") =>
        \A i \in DOMAIN y_true : Observed(i) # {} =>
            IsQuotient(loss_out["masked_mse"][i],
                       SquaredErrorOver(i, Observed(i)),
                       Cardinality(Observed(i)))
    /\ Applied("masked_binary_crossentropy") =>
        \A i \in DOMAIN y_true : Observed(i) # {} =>
            IsQuotient(loss_out["masked_binary_crossentropy"][i],
                       CrossEntropyOver(i, Observed(i)),
                       Cardinality(Observed(i)))

\* both losses applied after a replacement, in a sample that keeps an
\* observed position with an error
C3_Witness ==
    /\ Applied("masked_mse")
    /\ Applied("masked_binary_crossentropy")
    /\ \E p \in replaced :
        /\ Observed(p[1]) # {}
        /\ loss_out["masked_mse"][p[1]].num > 0
        /\ loss_out["masked_binary_crossentropy"][p[1]].num > 0

(***************************************************************************)
(* Properties of Output.loss_fn.                                           *)
(***************************************************************************)
\* C6: with mask_negative set, loss_fn returns positive_only_mse for "mse" and
\* raises an error naming the loss for any other name; with mask_negative
\* unset it resolves the name through the keras registry.  The constructor
\* accepts every combination; every read gives the same outcome and leaves
\* the fields of the Output as the constructor set them.
C6_LossFn ==
    output # <<>> =>
        LET self == output[1]
        IN  /\ output = output_new
            /\ \A n \in DOMAIN loss_fn_log :
                LET r == loss_fn_log[n]
                IN  /\ r = loss_fn_log[1]
                    /\ (self.mask_negative /\ self.loss = "mse") =>
                            (r.kind = "return" /\ r.fn = "positive_only_mse")
                    /\ (self.mask_negative /\ self.loss # "mse") =>
                            (r.kind = "raise" /\ r.arg = self.loss
                             /\ r.msg = "No masked loss available for")
                    /\ ~self.mask_negative =>
                            r = keras_losses_deserialize(self.loss)

\* an Output with mask_negative and binary_crossentropy was constructed and
\* its loss_fn read twice
C6_Witness ==
    /\ output # <<>>
    /\ output[1].mask_negative
    /\ output[1].loss = "binary_crossentropy"
    /\ Len(loss_fn_log) = 2
    /\ loss_fn_log[2].kind = "raise"

(***************************************************************************)
(* Properties of SequenceInput: construction and round trip.               *)
(***************************************************************************)
\* conv_filter_sizes as _build_conv accepts it: layer records only
ValidConvFilterSizes(cfs) == \A n \in DOMAIN cfs.items : cfs.items[n].isdict

\* C4: for every valid SequenceInput, to_dict, the coercion of the keys of
\* conv_filter_sizes to strings, and from_dict succeed and give an object
\* whose conv_filter_sizes is identical to the original's.
C4_RoundTripClaim ==
    round_trip # <<>> =>
        LET original == objs[round_trip[1].of]
            back == round_trip[1].back
        IN  ValidConvFilterSizes(original.conv_filter_sizes) =>
                /\ back.kind = "return"
                /\ back.obj[1].conv_filter_sizes = original.conv_filter_sizes

\* C5: construction succeeds exactly when the encoding is one of the four
\* names and, for embedding, both augmentation flags are unset.
C5_ConstructionClaim ==
    last_init # <<>> =>
        LET a == last_init[1]
        IN  (a.kind = "return") <=>
                /\ a.encoding \in {"embedding", "onehot", "blosum", "pmbec"}
                /\ a.encoding = "embedding" =>
                        (~a.add_normalized_position /\ ~a.add_normalized_centrality)

(***************************************************************************)
(* Properties of SequenceInput.build().                                    *)
(***************************************************************************)
Returned_builds == {n \in DOMAIN build_log : build_log[n].kind = "return"}

OpsOf(n) == build_log[n].value[1].ops

\* the layers of a build, the identity of a weight source left aside
StagesOf(n) ==
    [k \in DOMAIN OpsOf(n) |->
        [OpsOf(n)[k] EXCEPT !.weight_source = IF @ = 0 THEN 0 ELSE 1]]

\* C7: build() leaves the configuration unchanged: after any builds every
\* descriptor equals what its constructor left, and two builds of one
\* descriptor give the same sequence of stages with the same parameters.
C7_ConfigurationUnchangedClaim ==
    /\ objs = objs_new
    /\ \A n, m \in Returned_builds :
            build_log[n].obj = build_log[m].obj => StagesOf(n) = StagesOf(m)

\* the builds of descriptor s started by builds of its dependents
NestedBuildsOf(s) ==
    {n \in DOMAIN build_log : build_log[n].obj = s /\ build_log[n].by # 0}

\* the source fragments the convolutions of descriptor id were given
SourcesReadBy(id) ==
    UNION {{OpsOf(n)[k].weight_source : k \in DOMAIN OpsOf(n)} :
            n \in {m \in Returned_builds : build_log[m].obj = id}} \ {0}

\* C8: a descriptor that is the conv_weight_source of others is built at
\* most once over all their builds, and every dependent reads the fragment
\* of that one build.
C8_SourceBuiltOnceClaim ==
    \A s \in DOMAIN objs :
        /\ Cardinality(NestedBuildsOf(s)) <= 1
        /\ \A id \in DOMAIN objs : objs[id].conv_weight_source = s =>
                SourcesReadBy(id) \subseteq NestedBuildsOf(s)

\* the convolution stage of a build: its convolutions and local poolings
ConvStage(n) ==
    SelectSeq(OpsOf(n),
              LAMBDA l : l.op \in {"aligned_convolutions", "local_max_pooling"})

HasPoolOverride(cfs) ==
    \E n \in DOMAIN cfs.items :
        Keys(cfs.items[n].d) \cap {PyStr("pool_size"), PyStr("pool_stride")} # {}

\* C9: with pooling enabled, a local max-pooling follows every convolution
\* applied except the last applied one, and never the last applied one.
C9_PoolingClaim ==
    \A n \in Returned_builds :
        LET stage == ConvStage(n)
            self == objs_new[build_log[n].obj]
        IN  /\ stage # <<>> => stage[Len(stage)].op = "aligned_convolutions"
            /\ ~HasPoolOverride(self.conv_filter_sizes) =>
                    \A k \in 1..(Len(stage) - 1) :
                        stage[k].op = "aligned_convolutions" =>
                            stage[k + 1].op = "local_max_pooling"

\* the position of a layer's stage in build()
StageNo(op) ==
    CASE op = "embedding" -> 2
      [] op \in {"aligned_convolutions", "local_max_pooling"} -> 3
      [] op = "recurrent_layers" -> 4
      [] op = "global_max_and_mean_pooling" -> 5
      [] op \in {"flatten", "dense_layers"} -> 6
      [] op = "highway_layers" -> 7

OpNames(n) == {OpsOf(n)[k].op : k \in DOMAIN OpsOf(n)}

InStageOrder(n) ==
    \A j, k \in DOMAIN OpsOf(n) :
        j < k => StageNo(OpsOf(n)[j].op) <= StageNo(OpsOf(n)[k].op)

ConvDisabled(self) ==
    \A k \in DOMAIN self.conv_filter_sizes.items :
        Keys(self.conv_filter_sizes.items[k].d) = {}

RnnDisabled(self) ==
    self.rnn_layer_sizes.kind = "list" /\ self.rnn_layer_sizes.items = <<>>

\* the stages before the dense stage leave a disabled stage's input as it is
EarlyStagesPassThrough(n, self) ==
    /\ self.encoding # "embedding" => "embedding" \notin OpNames(n)
    /\ ConvDisabled(self) =>
            OpNames(n) \cap {"aligned_convolutions", "local_max_pooling"} = {}
    /\ RnnDisabled(self) => "recurrent_layers" \notin OpNames(n)
    /\ ~self.global_pooling => "global_max_and_mean_pooling" \notin OpNames(n)

AllDisabled(self) ==
    /\ self.encoding # "embedding"
    /\ ConvDisabled(self)
    /\ RnnDisabled(self)
    /\ ~self.global_pooling
    /\ self.dense_layer_sizes = <<>>
    /\ self.n_highway_layers = 0

\* C10 as stated: the stages come in the fixed order, every disabled stage
\* returns its input unchanged, and with a non-embedding encoding and every
\* stage disabled build() returns the input placeholder with no operation
\* applied to it.
C10_PassThroughClaim ==
    \A n \in Returned_builds :
        LET self == objs_new[build_log[n].obj]
        IN  /\ InStageOrder(n)
            /\ EarlyStagesPassThrough(n, self)
            /\ (self.dense_layer_sizes = <<>> /\ self.n_highway_layers = 0) =>
                    OpNames(n) \cap {"flatten", "dense_layers", "highway_layers"} = {}
            /\ AllDisabled(self) =>
                    build_log[n].value[1] = make_vector_sequence_input(n)

\* C10 as amended: the stages come in the fixed order; a disabled embedding,
\* convolution, recurrent or global pooling stage returns its input
\* unchanged; the dense stage flattens an input of rank above 2 unless
\* return_sequences is set, also with no dense layer configured, and applies
\* dense layers only if some are configured; the highway stage applies
\* highway layers only if n_highway_layers is not 0.  With a non-embedding
\* encoding and every stage disabled, build() returns the input placeholder
\* itself if return_sequences is set and the flattened placeholder if not.
C10_StagesInOrder ==
    \A n \in Returned_builds :
        LET self == objs_new[build_log[n].obj]
            flattens == {k \in DOMAIN OpsOf(n) : OpsOf(n)[k].op = "flatten"}
        IN  /\ InStageOrder(n)
            /\ EarlyStagesPassThrough(n, self)
            /\ self.dense_layer_sizes = <<>> => "dense_layers" \notin OpNames(n)
            /\ self.n_highway_layers = 0 => "highway_layers" \notin OpNames(n)
            /\ Cardinality(flattens) =
                    IF ~self.return_sequences /\ ~self.global_pooling
                            /\ RnnDisabled(self)
                    THEN 1 ELSE 0
            /\ AllDisabled(self) =>
                    build_log[n].value[1] =
                        IF self.return_sequences
                        THEN make_vector_sequence_input(n)
                        ELSE flatten(make_vector_sequence_input(n))

\* a descriptor with every stage disabled and return_sequences unset was
\* built twice, each build returning the flattened placeholder
C10_Witness ==
    /\ objs # <<>>
    /\ AllDisabled(objs[1])
    /\ ~objs[1].return_sequences
    /\ Cardinality(Returned_builds) = 2
    /\ \A n \in Returned_builds : Len(OpsOf(n)) = 1

\* the keys of a layer record that are per-layer overrides, not filter widths
OverrideKeys ==
    {PyStr("pool_size"), PyStr("pool_stride"), PyStr("batch_normalization"),
     PyStr("activation"), PyStr("dropout")}

\* the filter widths of a layer record
FilterSizes(d) == {it \in d : it.k \notin OverrideKeys}

\* the value a layer record resolves a parameter to: its override, or else
\* the stack-level setting
Resolve(d, key, default) ==
    IF key \in Keys(d) THEN (CHOOSE it \in d : it.k = key).v ELSE default

\* the records of a descriptor, as constructed, that carry filter widths
AppliedRecords(id) ==
    SelectSeq(objs_new[id].conv_filter_sizes.items,
              LAMBDA e : e.isdict /\ FilterSizes(e.d) # {})

\* the builds that are the first build of their descriptor and returned
FirstBuilds ==
    {n \in Returned_builds :
        \A m \in 1..(n - 1) : build_log[m].obj # build_log[n].obj}

\* the record the j-th convolution of a build of id applies
RecordOf(id, j) ==
    AppliedRecords(id)[((j - 1) % Len(AppliedRecords(id))) + 1].d

\* the number of convolutions among the first k layers of a stage
ConvsUpTo(stage, k) ==
    Len(SelectSeq(SubSeq(stage, 1, k),
                  LAMBDA l : l.op = "aligned_convolutions"))

\* build n gives every convolution the filter widths of its record without
\* the override keys, and the record's overrides for batch_normalization,
\* activation and dropout (its pooling those for pool_size and pool_stride)
\* where the record carries them and the stack-level settings otherwise
ResolvedParameters(n) ==
    LET id == build_log[n].obj
        self == objs_new[id]
        stage == ConvStage(n)
    IN  /\ ConvsUpTo(stage, Len(stage)) =
                self.repeat_conv_layers * Len(AppliedRecords(id))
        /\ \A k \in DOMAIN stage :
            LET d == RecordOf(id, ConvsUpTo(stage, k))
            IN  IF stage[k].op = "aligned_convolutions"
                THEN /\ stage[k].output_dim = FilterSizes(d)
                     /\ stage[k].batch_normalization =
                            Resolve(d, PyStr("batch_normalization"),
                                    self.conv_batch_normalization)
                     /\ stage[k].activation =
                            Resolve(d, PyStr("activation"), self.conv_activation)
                     /\ stage[k].dropout =
                            Resolve(d, PyStr("dropout"), self.conv_dropout)
                ELSE /\ stage[k].size =
                            Resolve(d, PyStr("pool_size"), self.pool_size)
                     /\ stage[k].stride =
                            Resolve(d, PyStr("pool_stride"), self.pool_stride)

\* C11: within one build() the configured layer records are applied
\* repeat_conv_layers times, and in every repetition each layer uses the
\* same resolved parameters: its per-layer overrides where the record
\* carries them and the stack-level settings otherwise; the override keys
\* are never passed to the convolution as filter widths.
C11_SameParametersClaim == \A n \in FirstBuilds : ResolvedParameters(n)

\* the first repetition resolves as stated: a first build with a single
\* repetition, or of records without overrides, uses the stated parameters,
\* and no convolution ever gets an override key as a filter width
FirstRepetitionResolved ==
    /\ \A n \in FirstBuilds :
            LET self == objs_new[build_log[n].obj]
                plain == \A j \in DOMAIN self.conv_filter_sizes.items :
                            Keys(self.conv_filter_sizes.items[j].d)
                                \cap OverrideKeys = {}
            IN  (self.repeat_conv_layers = 1 \/ plain) => ResolvedParameters(n)
    /\ \A n \in Returned_builds : \A k \in DOMAIN OpsOf(n) :
            Keys(OpsOf(n)[k].output_dim) \cap OverrideKeys = {}

====
